---- MODULE Spec2Model ----
(***************************************************************************)
(* Model of fmikina/automerge-action: the per-pull-request decision engine *)
(* `update` (src/lib/update.js) and the batch loop that calls it           *)
(* (src/unnamed/part_000).                                                 *)
(*                                                                         *)
(* The program is single threaded; every `await` is a step boundary.  pc   *)
(* is the position of the one thread of control.  Every answer of the      *)
(* hosting platform or of git is an input, drawn when the call returns.    *)
(* `calls` is the list of collaborator calls made for the pull request in  *)
(* hand, in the order they were made.                                      *)
(***************************************************************************)
EXTENDS Integers, Sequences, FiniteSets, TLC

(* ------------------------------ bounds -------------------------------- *)
MaxPRs == 2
MaxLabels == 3
MaxReviews == 2
MaxEvents == 2
MaxTime == 2
MaxComments == 1
MaxPasses == 2         \* later runs that find the same pull request again

(* --------------------------- configuration ---------------------------- *)
\* context.config: the label names (update.js:23, 37; part_000:65, 72)
Automerge == "automerge"
Autorebase == "autorebase"
SkipValidation == "skip-validation"
Blocking == {"wip"}
Required == {"ready"}
LabelNames == {Automerge, Autorebase, SkipValidation, "wip", "ready"}

\* update.js:24  const actions = [automerge, autorebase]
Actions == {Automerge, Autorebase}

Null == "null"
HeadSha == "sha-head"
Repo == "owner/repo"
ForkRepo == "fork/repo"

(* ------------------------------ inputs -------------------------------- *)
RECURSIVE SeqsUpTo(_, _)
SeqsUpTo(S, n) ==
  IF n = 0 THEN {<<>>}
  ELSE LET shorter == SeqsUpTo(S, n - 1)
       IN  shorter \cup {Append(s, x) : s \in {t \in shorter : Len(t) = n - 1}, x \in S}

NoDup(s) == \A a, b \in 1..Len(s) : a # b => s[a] # s[b]

\* a pull request's labels: the platform keeps a label at most once
LabelSeqs == {s \in SeqsUpTo(LabelNames, MaxLabels) : NoDup(s)}

PullRequests ==
  [state : {"open", "closed"}, merged : BOOLEAN,
   headRepo : {Repo, ForkRepo}, baseRepo : {Repo}, labels : LabelSeqs]

Times == 1..MaxTime
ReviewStates == {"APPROVED", "CHANGES_REQUESTED", "COMMENTED"}
EventKinds == {[event |-> "labeled", label |-> Automerge],
               [event |-> "labeled", label |-> "ready"],
               [event |-> "unlabeled", label |-> Automerge]}

\* the platform lists reviews and events oldest first
Chronological(times) == \A a, b \in 1..Len(times) : a < b => times[a] <= times[b]

ReviewLists ==
  UNION {{[k \in 1..n |-> [id |-> k, state |-> st[k], submitted_at |-> tm[k]]] :
            st \in [1..n -> ReviewStates],
            tm \in {t \in [1..n -> Times] : Chronological(t)}} : n \in 0..MaxReviews}

EventLists ==
  UNION {{[k \in 1..n |-> [event |-> kd[k].event, label |-> kd[k].label,
                            created_at |-> tm[k]]] :
            kd \in [1..n -> EventKinds],
            tm \in {t \in [1..n -> Times] : Chronological(t)}} : n \in 0..MaxEvents}


MergeableStates == {"behind", "clean", "has_hooks", "dirty", "unknown", "blocked"}

(* ------------------------ pure parts of the code ---------------------- *)
\* update.js:29, 75, 121  actions.includes(name)
IsAction(name) == name \in Actions

\* update.js:26-40  the loop over pullRequest.labels; it throws at the second
\* action label, before it looks at the rest of that label
RECURSIVE ScanLabels(_, _, _, _)
ScanLabels(labels, k, act, skip) ==
  IF k > Len(labels) THEN [action |-> act, skip |-> skip, ambiguous |-> FALSE]
  ELSE IF IsAction(labels[k]) /\ act # Null
       THEN [action |-> act, skip |-> skip, ambiguous |-> TRUE]
       ELSE ScanLabels(labels, k + 1,
                       IF IsAction(labels[k]) THEN labels[k] ELSE act,
                       skip \/ labels[k] = SkipValidation)

\* a resolver that lets the first action label win
ResolveAction_FirstWins(labels) ==
  [ScanLabels(labels, 1, Null, FALSE) EXCEPT !.ambiguous = FALSE]

\* a resolver that falls back to automerge when no action label is present
ResolveAction_DefaultMerge(labels) ==
  LET r == ScanLabels(labels, 1, Null, FALSE)
  IN  IF r.action = Null /\ ~r.ambiguous THEN [r EXCEPT !.action = Automerge] ELSE r

\* a resolver that never sees the skip-validation marker
ResolveAction_IgnoreSkip(labels) ==
  [ScanLabels(labels, 1, Null, FALSE) EXCEPT !.skip = FALSE]

ResolveAction(labels) == ScanLabels(labels, 1, Null, FALSE)

\* a merged check that lets every pull request through
AlreadyMerged_Never(pr) == FALSE

\* update.js:12
AlreadyMerged(pr) == pr.merged = TRUE

\* a fork check that lets every pull request through
IsExternal_Never(pr) == FALSE

\* update.js:17
IsExternal(pr) == pr.headRepo # pr.baseRepo

\* a label drop that removes the automerge label only
DropLabels_OnlyAutomerge(labels) == SelectSeq(labels, LAMBDA l : l # Automerge)

\* a label drop that keeps every label
DropLabels_KeepAll(labels) == labels

\* update.js:72-78  the labels that are no action label, in their order
DropLabels(labels) == SelectSeq(labels, LAMBDA l : ~IsAction(l))

\* update.js:116-117  Array.prototype.reverse
Reverse(s) == [k \in 1..Len(s) |-> s[Len(s) + 1 - k]]

\* update.js:119-125  over the reversed events: the first `labeled` event of an
\* action label gives the date; <<>> is `undefined`
RECURSIVE FirstLabeled(_, _)
FirstLabeled(evs, k) ==
  IF k > Len(evs) THEN <<>>
  ELSE IF evs[k].event = "labeled" /\ IsAction(evs[k].label)
       THEN <<evs[k].created_at>>
       ELSE FirstLabeled(evs, k + 1)

\* a lookup that takes the first labelling instead of the last
LastLabeledDate_Earliest(reversedEvents) == FirstLabeled(Reverse(reversedEvents), 1)

LastLabeledDate(reversedEvents) == FirstLabeled(reversedEvents, 1)

\* a comparison that also leaves out a review submitted at the labelling
SubmittedBefore_OrAt(review, lld) == lld # <<>> /\ review.submitted_at <= lld[1]

\* update.js:128  new Date(review.submitted_at) < lastLabeledDate; a comparison
\* with `undefined` is false
SubmittedBefore(review, lld) == lld # <<>> /\ review.submitted_at < lld[1]

\* update.js:132
InspectsComments(state) == state \in {"CHANGES_REQUESTED", "APPROVED"}

\* update.js:140  comments && comments.length, as a truth value
HasComments(count) == count > 0

\* part_000:61-80
\* an orchestrator that looks at the required labels only
skipPullRequest_RequiredOnly(pr) ==
  \E required \in Required : \A k \in 1..Len(pr.labels) : pr.labels[k] # required

skipPullRequest(pr) ==
  \/ \E k \in 1..Len(pr.labels) : pr.labels[k] \in Blocking
  \/ \E required \in Required : \A k \in 1..Len(pr.labels) : pr.labels[k] # required

(* ------------------------------- state -------------------------------- *)
VARIABLES
  pc,                 \* position of the thread of control
  n,                  \* part_000:17  length of pullRequests
  i,                  \* part_000:26  pull requests taken from the list so far
  attempts,           \* indexes handed to updateAndMergePullRequest, in order
  outcomes,           \* what the catch of part_000:29-35 saw, per pull request
  pullRequest, octokit, dir, url,              \* the arguments of update
  action, skipAdvancedApprovalValidation,      \* update.js:26-27
  reviews, lastLabeledDate, ri,                \* isPrReviewed's locals
  labelings,          \* the times at which the listed events put an action label on
  needsChangesAfterLabeled,                    \* update.js:102
  isReviewedCorrectly,                         \* update.js:48
  head, newHead,                               \* SHAs read back (merge, rebase)
  state,              \* update.js:150  the mergeable state read by merge
  platform,           \* the platform's side of this pull request: its labels
                      \* and the notices posted on it
  pass,               \* earlier passes of update over this pull request
  calls,              \* collaborator calls made for this pull request
  result              \* how update (or updateAndMergePullRequest) ended

batchVars == <<n, i, attempts, outcomes>>
argVars == <<pullRequest, octokit, dir, url>>
labelVars == <<action, skipAdvancedApprovalValidation>>
reviewVars == <<reviews, labelings, lastLabeledDate, ri, needsChangesAfterLabeled,
                isReviewedCorrectly>>
gitVars == <<head, newHead>>
platformVars == <<platform, pass>>
vars == <<pc, batchVars, argVars, labelVars, reviewVars, gitVars, state, platformVars,
          calls, result>>

Pending == [kind |-> "pending", value |-> ""]
NoPullRequest == [state |-> "open", merged |-> FALSE, headRepo |-> Repo,
                  baseRepo |-> Repo, labels |-> <<>>]

\* what the platform holds of a pull request when its snapshot is taken
OnPlatform(pr) == [labels |-> pr.labels, updates |-> 0, comments |-> 0]

\* the locals of one call of update, before it runs
FreshLocals ==
  /\ action = Null /\ skipAdvancedApprovalValidation = FALSE
  /\ reviews = <<>> /\ labelings = {} /\ lastLabeledDate = <<>> /\ ri = 0
  /\ needsChangesAfterLabeled = FALSE /\ isReviewedCorrectly = FALSE
  /\ head = Null /\ newHead = Null /\ state = Null
  /\ calls = <<>> /\ result = Pending

\* part_000:7-13  executeGitHubAction has been called, nothing has run yet
Init ==
  /\ pc = "list"
  /\ n = 0 /\ i = 0 /\ attempts = <<>> /\ outcomes = <<>>
  /\ pullRequest = NoPullRequest
  /\ octokit = "octokit" /\ dir = Null /\ url = Null
  /\ platform = OnPlatform(NoPullRequest) /\ pass = 0
  /\ FreshLocals

\* update.js:9  update(context, dir, url, pullRequest) called on its own: the
\* module exports it, and every argument is the caller's (update never reads
\* pullRequest.state)
InitUpdate ==
  /\ pc = "update"
  /\ n = 0 /\ i = 0 /\ attempts = <<>> /\ outcomes = <<>>
  /\ pullRequest \in {pr \in PullRequests : pr.state = "open"}
  /\ octokit \in {"octokit", Null} /\ dir \in {"dir", Null} /\ url \in {"url", Null}
  /\ platform = OnPlatform(pullRequest) /\ pass = 0
  /\ FreshLocals

(* ------------------------------ helpers ------------------------------- *)
Entry(op, labels, id, count, ok) ==
  [op |-> op, labels |-> labels, id |-> id, n |-> count, ok |-> ok]

Call(op, ok) == calls' = Append(calls, Entry(op, <<>>, 0, 0, ok))

\* update ends: a value returned, a NeutralExitError, or any other error
Finish(kind, value) ==
  /\ result' = [kind |-> kind, value |-> value]
  /\ pc' = "updateDone"


(* ------------------------- update (update.js) ------------------------- *)
\* update.js:10-45  up to the resolution of the action
Update ==
  /\ pc = "update"
  /\ IF AlreadyMerged(pullRequest)
     THEN Finish("neutral", "merged") /\ UNCHANGED labelVars
     ELSE IF IsExternal(pullRequest)
     THEN Finish("neutral", "external") /\ UNCHANGED labelVars
     ELSE LET r == ResolveAction(pullRequest.labels)
          IN  IF r.ambiguous
              THEN Finish("error", "ambiguous labels") /\ UNCHANGED labelVars
              ELSE IF r.action = Null
              THEN Finish("neutral", "no action") /\ UNCHANGED labelVars
              ELSE /\ action' = r.action
                   /\ skipAdvancedApprovalValidation' = r.skip
                   /\ pc' = IF r.skip THEN "execute" ELSE "isPrReviewed"
                   /\ UNCHANGED result
  /\ UNCHANGED <<batchVars, platformVars, state, argVars, reviewVars, gitVars, calls>>

\* update.js:48, 104-108  isPrReviewed is entered and lists the reviews
ListReviews ==
  /\ pc = "isPrReviewed"
  /\ IF octokit = Null
     THEN Finish("error", "TypeError") /\ UNCHANGED <<reviews, calls>>
     ELSE \/ /\ Call("pulls.listReviews", FALSE)
             /\ Finish("error", "platform")
             /\ UNCHANGED reviews
          \/ \E data \in ReviewLists :
               /\ Call("pulls.listReviews", TRUE)
               /\ reviews' = data
               /\ pc' = "listEvents"
               /\ UNCHANGED result
  /\ needsChangesAfterLabeled' = FALSE
  /\ UNCHANGED <<batchVars, platformVars, state, argVars, labelVars, gitVars, labelings, lastLabeledDate,
                 ri, isReviewedCorrectly>>

\* update.js:110-125  the events are listed, both lists are reversed and the
\* date of the last labelling is looked up
ListEvents ==
  /\ pc = "listEvents"
  /\ \/ /\ Call("issues.listEvents", FALSE)
        /\ Finish("error", "platform")
        /\ UNCHANGED <<reviews, labelings, lastLabeledDate, ri>>
     \/ \E data \in EventLists :
          /\ Call("issues.listEvents", TRUE)
          /\ labelings' = {data[k].created_at : k \in
                             {j \in 1..Len(data) : /\ data[j].event = "labeled"
                                                   /\ data[j].label \in Actions}}
          /\ reviews' = Reverse(reviews)
          /\ lastLabeledDate' = LastLabeledDate(Reverse(data))
          /\ ri' = 1
          /\ pc' = "reviewLoop"
          /\ UNCHANGED result
  /\ UNCHANGED <<batchVars, platformVars, state, argVars, labelVars, gitVars, needsChangesAfterLabeled,
                 isReviewedCorrectly>>

\* update.js:127-132, 141-146  one turn of the loop over the reversed reviews,
\* up to the fetch of the review's comments, or the return
ReviewLoop ==
  /\ pc = "reviewLoop"
  /\ IF ri > Len(reviews) \/ SubmittedBefore(reviews[ri], lastLabeledDate)
     THEN /\ isReviewedCorrectly' = ~needsChangesAfterLabeled
          /\ pc' = "validated"
          /\ UNCHANGED <<ri, needsChangesAfterLabeled>>
     ELSE IF InspectsComments(reviews[ri].state)
     THEN /\ pc' = "getCommentsForReview"
          /\ UNCHANGED <<ri, needsChangesAfterLabeled, isReviewedCorrectly>>
     ELSE /\ needsChangesAfterLabeled' = TRUE
          /\ ri' = ri + 1
          /\ UNCHANGED <<pc, isReviewedCorrectly>>
  /\ UNCHANGED <<batchVars, platformVars, state, argVars, labelVars, gitVars, reviews, labelings,
                 lastLabeledDate, calls, result>>

\* update.js:133-140
GetCommentsForReview ==
  /\ pc = "getCommentsForReview"
  /\ \/ /\ calls' = Append(calls, Entry("pulls.getCommentsForReview", <<>>,
                                        reviews[ri].id, 0, FALSE))
        /\ Finish("error", "platform")
        /\ UNCHANGED <<ri, needsChangesAfterLabeled>>
     \/ \E count \in 0..MaxComments :
          /\ calls' = Append(calls, Entry("pulls.getCommentsForReview", <<>>,
                                          reviews[ri].id, count, TRUE))
          /\ needsChangesAfterLabeled' = (needsChangesAfterLabeled \/ HasComments(count))
          /\ ri' = ri + 1
          /\ pc' = "reviewLoop"
          /\ UNCHANGED result
  /\ UNCHANGED <<batchVars, platformVars, state, argVars, labelVars, gitVars, reviews, labelings,
                 lastLabeledDate, isReviewedCorrectly>>

\* update.js:49-59  isPrReviewed has returned, its locals are gone
Validated ==
  /\ pc = "validated"
  /\ IF ~isReviewedCorrectly
     THEN pc' = "dropAutoMergeLabel" /\ UNCHANGED result
     ELSE IF octokit = Null \/ dir = Null \/ url = Null
     THEN Finish("error", "invalid arguments!")
     ELSE pc' = "execute" /\ UNCHANGED result
  /\ reviews' = <<>> /\ labelings' = {} /\ lastLabeledDate' = <<>> /\ ri' = 0
  /\ needsChangesAfterLabeled' = FALSE
  /\ UNCHANGED <<batchVars, platformVars, state, argVars, labelVars, isReviewedCorrectly, gitVars, calls>>

\* update.js:71-87  dropAutoMergeLabel: the label update
IssuesUpdate ==
  /\ pc = "dropAutoMergeLabel"
  /\ \/ /\ calls' = Append(calls, Entry("issues.update", DropLabels(pullRequest.labels),
                                        0, 0, FALSE))
        /\ Finish("error", "platform")
        /\ UNCHANGED platform
     \/ /\ calls' = Append(calls, Entry("issues.update", DropLabels(pullRequest.labels),
                                        0, 0, TRUE))
        /\ platform' = [platform EXCEPT !.labels = DropLabels(pullRequest.labels),
                                        !.updates = @ + 1]
        /\ pc' = "createComment"
        /\ UNCHANGED result
  /\ UNCHANGED <<batchVars, pass, state, argVars, labelVars, reviewVars, gitVars>>

\* update.js:89-99, 52  the comment, then the NeutralExitError of update
IssuesCreateComment ==
  /\ pc = "createComment"
  /\ \/ /\ Call("issues.createComment", FALSE)
        /\ Finish("error", "platform")
        /\ UNCHANGED platform
     \/ /\ Call("issues.createComment", TRUE)
        /\ platform' = [platform EXCEPT !.comments = @ + 1]
        /\ Finish("neutral", "unstable")
  /\ UNCHANGED <<batchVars, pass, state, argVars, labelVars, reviewVars, gitVars>>

\* update.js:62-68
Execute ==
  /\ pc = "execute"
  /\ IF action = Automerge THEN pc' = "merge" /\ UNCHANGED result
     ELSE IF action = Autorebase THEN pc' = "rebase" /\ UNCHANGED result
     ELSE Finish("error", "invalid action")
  /\ UNCHANGED <<batchVars, platformVars, state, argVars, labelVars, reviewVars, gitVars, calls>>


(* ------------------------ merge (update.js:149) ----------------------- *)
\* a merge executor that also merges into a conflicting head
NeedsMerge_OrDirty(st) == st = "behind" \/ st = "dirty"

\* update.js:151  the head lacks commits of the base
NeedsMerge(st) == st = "behind"

\* update.js:173  nothing to bring in
NoUpdateNecessary(st) == st = "clean" \/ st = "has_hooks"

\* update.js:156-161  what repos.merge answers: a merge commit was created, or
\* the head already held the base
MergeStatuses == {201, 204}

\* update.js:171  data.sha of a created merge commit
MergeShas == {"sha-merged", "sha-merged-2"}

\* a merge executor that takes every answer for a created merge commit
NoMergePerformed_Never(status) == FALSE

\* update.js:165  status 204: nothing was merged
NoMergePerformed(status) == status = 204

\* update.js:150-151, 173-179, 182-190  the mergeable state is read
PullRequestState ==
  /\ pc = "merge"
  /\ IF octokit = Null
     THEN Finish("error", "TypeError") /\ UNCHANGED <<calls, state>>
     ELSE \/ Call("pulls.get", FALSE) /\ Finish("error", "platform") /\ UNCHANGED state
          \/ \E st \in MergeableStates :
               /\ Call("pulls.get", TRUE)
               /\ state' = st
               /\ IF NeedsMerge(st)
                  THEN pc' = "repos.merge" /\ UNCHANGED result
                  ELSE IF NoUpdateNecessary(st)
                  THEN Finish("return", HeadSha)
                  ELSE Finish("neutral", "state")
  /\ UNCHANGED <<batchVars, platformVars, argVars, labelVars, reviewVars, gitVars>>

\* update.js:152-169  the platform merges the base into the head
ReposMerge ==
  /\ pc = "repos.merge"
  /\ \/ /\ Call("repos.merge", FALSE)
        /\ Finish("error", "platform")
        /\ UNCHANGED newHead
     \/ \E status \in MergeStatuses, sha \in MergeShas :
          /\ calls' = Append(calls, Entry("repos.merge", <<>>, 0, status, TRUE))
          /\ IF NoMergePerformed(status)
             THEN Finish("return", HeadSha) /\ UNCHANGED newHead
             ELSE /\ newHead' = sha
                  /\ pc' = "settle.merge"
                  /\ UNCHANGED result
  /\ UNCHANGED <<batchVars, platformVars, state, argVars, labelVars, reviewVars, head>>

\* a merge executor that returns data.sha at once
SettleMerge_NoDelay ==
  /\ pc = "settle.merge"
  /\ Finish("return", newHead)
  /\ UNCHANGED <<batchVars, platformVars, state, argVars, labelVars, reviewVars, gitVars, calls>>

\* update.js:170-171  the settle delay, then data.sha is returned
SettleMerge ==
  /\ pc = "settle.merge"
  /\ Call("setTimeout", TRUE)
  /\ Finish("return", newHead)
  /\ UNCHANGED <<batchVars, platformVars, state, argVars, labelVars, reviewVars, gitVars>>

(* ----------------------- rebase (update.js:192) ----------------------- *)
\* one call of the git collaborator that gives no value: it succeeds or throws
GitStep(at, op, next) ==
  /\ pc = at
  /\ \/ Call(op, FALSE) /\ Finish("error", "git")
     \/ Call(op, TRUE) /\ pc' = next /\ UNCHANGED result
  /\ UNCHANGED <<batchVars, platformVars, state, argVars, labelVars, reviewVars, gitVars>>

\* update.js:193-197
GitClone == GitStep("rebase", "git.clone", "git.fetch")

\* update.js:199-200
GitFetch == GitStep("git.fetch", "git.fetch", "git.fetchUntilMergeBase")

\* update.js:201
GitFetchUntilMergeBase == GitStep("git.fetchUntilMergeBase", "git.fetchUntilMergeBase", "git.head")

\* a rebase executor that trusts whatever it checked out
HeadChanged_Never(sha) == FALSE

\* update.js:204  the checked-out HEAD is not the recorded head SHA
HeadChanged(sha) == sha # HeadSha

\* update.js:203-209  HEAD is read and compared with the recorded head SHA
GitHead ==
  /\ pc = "git.head"
  /\ \/ Call("git.head", FALSE) /\ Finish("error", "git") /\ UNCHANGED head
     \/ \E sha \in {HeadSha, "sha-pushed"} :
          /\ Call("git.head", TRUE)
          /\ head' = sha
          /\ IF HeadChanged(sha)
             THEN Finish("neutral", "head changed")
             ELSE pc' = "git.sha" /\ UNCHANGED result
  /\ UNCHANGED <<batchVars, platformVars, state, argVars, labelVars, reviewVars, newHead>>

\* update.js:211
GitSha == GitStep("git.sha", "git.sha", "git.rebase")

\* update.js:213-214
GitRebase == GitStep("git.rebase", "git.rebase", "git.newHead")

\* a rebase executor that pushes whatever the rebase left
AlreadyUpToDate_Never(newSha, oldSha) == FALSE

\* update.js:217  the rebase did not move HEAD
AlreadyUpToDate(newSha, oldSha) == newSha = oldSha

\* update.js:216-220, 227  HEAD is read again
GitNewHead ==
  /\ pc = "git.newHead"
  /\ \/ Call("git.head", FALSE) /\ Finish("error", "git") /\ UNCHANGED newHead
     \/ \E sha \in {head, "sha-rebased"} :
          /\ Call("git.head", TRUE)
          /\ newHead' = sha
          /\ IF AlreadyUpToDate(sha, head)
             THEN Finish("return", sha)
             ELSE pc' = "git.push" /\ UNCHANGED result
  /\ UNCHANGED <<batchVars, platformVars, state, argVars, labelVars, reviewVars, head>>

\* update.js:221  git.push(dir, true, headRef)
GitPush == GitStep("git.push", "git.push", "settle.rebase")

\* a rebase executor that returns right after the push
SettleRebase_NoDelay ==
  /\ pc = "settle.rebase"
  /\ Finish("return", newHead)
  /\ UNCHANGED <<batchVars, platformVars, state, argVars, labelVars, reviewVars, gitVars, calls>>

\* update.js:222-227
SettleRebase ==
  /\ pc = "settle.rebase"
  /\ Call("setTimeout", TRUE)
  /\ Finish("return", newHead)
  /\ UNCHANGED <<batchVars, platformVars, state, argVars, labelVars, reviewVars, gitVars>>

(* ----------------------- the batch (part_000) ------------------------- *)
\* part_000:13-24  the open pull requests are listed; a failure ends the run
ListPullRequests ==
  /\ pc = "list"
  /\ \/ pc' = "crashed" /\ UNCHANGED n
     \/ \E len \in 0..MaxPRs : n' = len /\ pc' = "loop"
  /\ UNCHANGED <<i, attempts, outcomes, argVars, labelVars, reviewVars, gitVars,
                 state, platformVars, calls, result>>

\* part_000:26-28  the loop takes the next pull request of the list, whose
\* fields are read here for the first time
LoopNext ==
  /\ pc = "loop"
  /\ IF i < n
     THEN /\ i' = i + 1
          /\ attempts' = Append(attempts, i + 1)
          /\ pullRequest' \in PullRequests
          /\ platform' = OnPlatform(pullRequest')
          /\ pc' = "updateAndMergePullRequest"
     ELSE /\ pc' = "finished"
          /\ UNCHANGED <<i, attempts, pullRequest, platform>>
  /\ UNCHANGED <<n, outcomes, octokit, dir, url, labelVars, reviewVars, gitVars,
                 state, pass, calls, result>>

\* part_000:39-56  the checks of updateAndMergePullRequest, then tmpdir
\* provisions the directory and calls update
UpdateAndMergePullRequest ==
  /\ pc = "updateAndMergePullRequest"
  /\ IF pullRequest.state # "open" \/ skipPullRequest(pullRequest)
     THEN /\ result' = [kind |-> "neutral", value |-> "skipped"]
          /\ pc' = "catch"
          /\ UNCHANGED <<dir, url, calls>>
     ELSE /\ Call("tmpdir", TRUE)
          /\ dir' = "dir" /\ url' = "url"
          /\ pc' = "update"
          /\ UNCHANGED result
  /\ UNCHANGED <<batchVars, platformVars, state, pullRequest, octokit, labelVars, reviewVars, gitVars>>

\* part_000:54-56  update has ended: tmpdir removes the directory and passes
\* the value or the error on
TmpdirExit ==
  /\ pc = "updateDone"
  /\ Call("tmpdir.remove", TRUE)
  /\ pc' = IF result.kind = "return" THEN "finalMerge" ELSE "catch"
  /\ UNCHANGED <<batchVars, platformVars, state, argVars, labelVars, reviewVars, gitVars, result>>

\* part_000:58  merge(context, pullRequest, head) of ./merge: it returns, or
\* throws a NeutralExitError or another error
FinalMerge ==
  /\ pc = "finalMerge"
  /\ \E kind \in {"return", "neutral", "error"} :
       result' = [kind |-> kind, value |-> IF kind = "return" THEN result.value ELSE "merge"]
  /\ Call("merge", TRUE)
  /\ pc' = "catch"
  /\ UNCHANGED <<batchVars, platformVars, state, argVars, labelVars, reviewVars, gitVars>>

\* a catch that lets a fatal error end the run
Catch_Rethrow ==
  /\ pc = "catch"
  /\ outcomes' = Append(outcomes,
       [pr |-> i, kind |-> result.kind,
        log |-> IF result.kind = "neutral" THEN "trace"
                ELSE IF result.kind = "error" THEN "error" ELSE "none"])
  /\ pc' = IF result.kind = "error" THEN "crashed" ELSE "loop"
  /\ pullRequest' = NoPullRequest /\ dir' = Null /\ url' = Null
  /\ action' = Null /\ skipAdvancedApprovalValidation' = FALSE
  /\ reviews' = <<>> /\ labelings' = {} /\ lastLabeledDate' = <<>> /\ ri' = 0
  /\ needsChangesAfterLabeled' = FALSE /\ isReviewedCorrectly' = FALSE
  /\ head' = Null /\ newHead' = Null /\ state' = Null
  /\ platform' = OnPlatform(NoPullRequest)
  /\ calls' = <<>> /\ result' = Pending
  /\ UNCHANGED <<n, i, attempts, octokit, pass>>

\* part_000:29-36  the end of one turn of the loop: a NeutralExitError is
\* traced, another error is logged, and the loop goes on; everything that
\* belonged to this pull request goes out of scope
Catch ==
  /\ pc = "catch"
  /\ outcomes' = Append(outcomes,
       [pr |-> i, kind |-> result.kind,
        log |-> IF result.kind = "neutral" THEN "trace"
                ELSE IF result.kind = "error" THEN "error" ELSE "none"])
  /\ pc' = "loop"
  /\ pullRequest' = NoPullRequest /\ dir' = Null /\ url' = Null
  /\ action' = Null /\ skipAdvancedApprovalValidation' = FALSE
  /\ reviews' = <<>> /\ labelings' = {} /\ lastLabeledDate' = <<>> /\ ri' = 0
  /\ needsChangesAfterLabeled' = FALSE /\ isReviewedCorrectly' = FALSE
  /\ head' = Null /\ newHead' = Null /\ state' = Null
  /\ platform' = OnPlatform(NoPullRequest)
  /\ calls' = <<>> /\ result' = Pending
  /\ UNCHANGED <<n, i, attempts, octokit, pass>>

\* part_000:7-28, 54-56  a later run of the action lists the pull request
\* again, with the labels the platform holds by then, and calls update on it
NextPass ==
  /\ pc = "updateDone"
  /\ pass < MaxPasses
  /\ pass' = pass + 1
  /\ pullRequest' = [pullRequest EXCEPT !.labels = platform.labels]
  /\ pc' = "update"
  /\ action' = Null /\ skipAdvancedApprovalValidation' = FALSE
  /\ reviews' = <<>> /\ labelings' = {} /\ lastLabeledDate' = <<>> /\ ri' = 0
  /\ needsChangesAfterLabeled' = FALSE /\ isReviewedCorrectly' = FALSE
  /\ head' = Null /\ newHead' = Null /\ state' = Null
  /\ calls' = <<>> /\ result' = Pending
  /\ UNCHANGED <<batchVars, platform, octokit, dir, url>>

(* --------------------------- specifications --------------------------- *)
UpdateNext ==
  \/ Update \/ ListReviews \/ ListEvents \/ ReviewLoop \/ GetCommentsForReview
  \/ Validated \/ IssuesUpdate \/ IssuesCreateComment \/ Execute
  \/ PullRequestState \/ ReposMerge \/ SettleMerge
  \/ GitClone \/ GitFetch \/ GitFetchUntilMergeBase \/ GitHead \/ GitSha
  \/ GitRebase \/ GitNewHead \/ GitPush \/ SettleRebase

Next ==
  \/ ListPullRequests \/ LoopNext \/ UpdateAndMergePullRequest
  \/ TmpdirExit \/ FinalMerge \/ Catch
  \/ UpdateNext

\* one run of executeGitHubAction
Spec == Init /\ [][Next]_vars

\* one call of update with arguments of the caller's choice
SpecUpdate == InitUpdate /\ [][UpdateNext]_vars

\* update called on the same pull request by one run after another
ReentryNext == UpdateNext \/ NextPass
SpecReentry == InitUpdate /\ [][ReentryNext]_vars


(* ------------------------------ claims -------------------------------- *)
ActionLabelCount(pr) ==
  Cardinality({k \in 1..Len(pr.labels) : pr.labels[k] \in {Automerge, Autorebase}})

HasLabel(pr, name) == \E k \in 1..Len(pr.labels) : pr.labels[k] = name

ReadOps == {"pulls.listReviews", "issues.listEvents", "pulls.getCommentsForReview"}
MutatingOps == {"issues.update", "issues.createComment", "repos.merge"}
GitOps == {"git.clone", "git.fetch", "git.fetchUntilMergeBase", "git.head",
           "git.sha", "git.rebase", "git.push"}

\* positions inside the merge or the rebase executor
ExecutorPcs == {"merge", "repos.merge", "settle.merge", "rebase", "git.fetch",
                "git.fetchUntilMergeBase", "git.head", "git.sha", "git.rebase",
                "git.newHead", "git.push", "settle.rebase"}

Made(ops) == {k \in 1..Len(calls) : calls[k].op \in ops}

Ambiguous == result = [kind |-> "error", value |-> "ambiguous labels"]

\* C1, as stated: a pull request with more than one action label ends update in
\* the fatal ambiguity error, whatever its merged flag and its repositories;
\* it never ends in a benign skip and never reaches an executor.
C1_AnyPullRequest ==
  ActionLabelCount(pullRequest) > 1 =>
    /\ pc \notin ExecutorPcs \cup {"execute"}
    /\ pc = "updateDone" => Ambiguous

\* C1, amended: a pull request that is not merged, whose head and base
\* repository are the same and that carries more than one action label ends
\* update in the fatal ambiguity error; it never ends in a benign skip, reaches
\* no executor and makes no call.
C1_AmbiguousIsFatal ==
  (ActionLabelCount(pullRequest) > 1 /\ ~pullRequest.merged
     /\ pullRequest.headRepo = pullRequest.baseRepo) =>
    /\ pc \in {"update", "updateDone"}
    /\ calls = <<>>
    /\ pc = "updateDone" => Ambiguous

C1_Witness ==
  /\ pc = "updateDone" /\ Ambiguous
  /\ ActionLabelCount(pullRequest) = 2
  /\ ~pullRequest.merged /\ pullRequest.headRepo = pullRequest.baseRepo

\* C2: a pull request with no action label ends update in a benign skip, with
\* no mutating platform call and no git operation made on the way.
C2_NoActionIsSkip ==
  ActionLabelCount(pullRequest) = 0 =>
    /\ pc \in {"update", "updateDone"}
    /\ Made(MutatingOps \cup GitOps) = {}
    /\ pc = "updateDone" => result.kind = "neutral"

C2_Witness ==
  /\ pc = "updateDone" /\ result = [kind |-> "neutral", value |-> "no action"]
  /\ ActionLabelCount(pullRequest) = 0 /\ Len(pullRequest.labels) > 1
  /\ octokit # Null /\ calls = <<>>

\* C3: a pull request whose head repository is not its base repository ends
\* update in a benign skip before any review fetch, label drop, comment, merge
\* or rebase step; no merge or rebase is ever performed on it.
C3_ExternalIsSkip ==
  pullRequest.headRepo # pullRequest.baseRepo =>
    /\ pc \in {"update", "updateDone"}
    /\ calls = <<>>
    /\ pc = "updateDone" => result.kind = "neutral"

C3_Witness ==
  /\ pc = "updateDone" /\ result = [kind |-> "neutral", value |-> "external"]
  /\ pullRequest.headRepo = ForkRepo /\ ~pullRequest.merged
  /\ ActionLabelCount(pullRequest) = 1 /\ octokit # Null


\* one run of executeGitHubAction in which every call that was started comes
\* back, with a value or with an error
SpecLive == Init /\ [][Next]_vars /\ WF_vars(Next)

InOrder(s) == s = [k \in 1..Len(s) |-> k]

\* C4: in one batch run every pull request of the list is attempted exactly
\* once, in list order, whatever the outcome of the ones before it: the run
\* does not end before the whole list was gone through, and it does end.
C4_EveryPullRequestAttempted ==
  /\ [](InOrder(attempts) /\ Len(attempts) <= n /\ Len(outcomes) <= Len(attempts))
  /\ [](pc = "finished" => Len(attempts) = n /\ Len(outcomes) = n)
  /\ (pc = "loop") ~> (pc = "finished")

C4_Witness ==
  /\ pc = "finished" /\ n = 2 /\ attempts = <<1, 2>>
  /\ outcomes[1].kind = "error" /\ outcomes[1].log = "error"
  /\ Len(outcomes) = 2


(* The review validator.  At pc = "validated" isPrReviewed has just returned:
   reviews is the reversed list it scanned, ri the place where the scan
   stopped, labelings the times of the listed `labeled` events of an action
   label, and calls holds the comments fetched for each review. *)
T_label == CHOOSE t \in labelings : \A u \in labelings : u <= t

FetchOf(id) == {k \in 1..Len(calls) : /\ calls[k].op = "pulls.getCommentsForReview"
                                      /\ calls[k].id = id /\ calls[k].ok}

Verdict(review) == review.state \in {"APPROVED", "CHANGES_REQUESTED"}

\* a review that destabilizes: a verdict with at least one attached comment,
\* or a review of any other state
Destabilizing(review) ==
  IF Verdict(review)
  THEN \E k \in FetchOf(review.id) : calls[k].n >= 1
  ELSE TRUE

PostLabel(review) == review.submitted_at >= T_label

\* C5: with a known label time, isPrReviewed returns true iff no review
\* submitted at or after the label time is destabilizing; the comments of every
\* such APPROVED or CHANGES_REQUESTED review were fetched to decide it.
C5_StableIffNoDestabilizing ==
  (pc = "validated" /\ labelings # {}) =>
    /\ \A k \in 1..Len(reviews) :
         (PostLabel(reviews[k]) /\ Verdict(reviews[k])) => FetchOf(reviews[k].id) # {}
    /\ isReviewedCorrectly <=>
         ~ \E k \in 1..Len(reviews) : PostLabel(reviews[k]) /\ Destabilizing(reviews[k])

C5_Witness ==
  /\ pc = "validated" /\ labelings # {} /\ ~isReviewedCorrectly
  /\ Len(reviews) = 1 /\ reviews[1].state = "APPROVED"
  /\ reviews[1].submitted_at = T_label
  /\ \E k \in FetchOf(reviews[1].id) : calls[k].n = 1

\* C6: the label time is the time of the most recent `labeled` event of an
\* action label; the scan over the reviews, newest first, stops at the first
\* review submitted before it, fetches no comments for that review or an older
\* one, and the result depends on the reviews scanned only.
C6_ScanStopsAtLabel ==
  pc \in {"reviewLoop", "getCommentsForReview", "validated"} =>
    /\ lastLabeledDate = IF labelings = {} THEN <<>> ELSE <<T_label>>
    /\ labelings # {} =>
         /\ \A k \in 1..Len(reviews) :
              /\ k < ri => PostLabel(reviews[k])
              /\ FetchOf(reviews[k].id) # {} => PostLabel(reviews[k])
              /\ (pc = "validated" /\ k >= ri) => ~PostLabel(reviews[k])
         /\ pc = "validated" =>
              (isReviewedCorrectly <=>
                 ~ \E k \in 1..Len(reviews) : k < ri /\ Destabilizing(reviews[k]))

C6_Witness ==
  /\ pc = "validated" /\ Cardinality(labelings) = 2 /\ isReviewedCorrectly
  /\ ri = 1 /\ Len(reviews) > 0
  /\ reviews[1].state = "CHANGES_REQUESTED"
  /\ reviews[1].submitted_at < T_label
  /\ \E t \in labelings : t <= reviews[1].submitted_at

\* C7, as stated: without a `labeled` event of an action label isPrReviewed
\* returns true for every review history.
C7_NoLabelEventIsStable ==
  (pc = "validated" /\ labelings = {}) => isReviewedCorrectly

\* C8, as stated: a CHANGES_REQUESTED review submitted after the last labelling
\* makes the validator report unstable, with or without attached comments.
C8_ChangesRequestedRescinds ==
  (pc = "validated" /\ labelings # {}
     /\ \E k \in 1..Len(reviews) : /\ reviews[k].state = "CHANGES_REQUESTED"
                                   /\ reviews[k].submitted_at > T_label)
    => ~isReviewedCorrectly

ExpectedLabels(pr) == SelectSeq(pr.labels, LAMBDA l : l # Automerge /\ l # Autorebase)

Unstable == [kind |-> "neutral", value |-> "unstable"]

C9_DropState ==
  /\ pc = "dropAutoMergeLabel" =>
       Made(MutatingOps \cup GitOps \cup {"pulls.get", "setTimeout"}) = {}
  /\ pc = "createComment" =>
       /\ Made({"issues.update"}) = {Len(calls)}
       /\ calls[Len(calls)] = Entry("issues.update", ExpectedLabels(pullRequest), 0, 0, TRUE)
       /\ Made({"issues.createComment"}) = {}
  /\ (pc = "updateDone" /\ Made({"issues.update"}) # {}) =>
       \E u \in Made({"issues.update"}) :
         /\ Made({"issues.update"}) = {u}
         /\ calls[u].labels = ExpectedLabels(pullRequest)
         /\ Made(GitOps \cup {"repos.merge", "pulls.get", "setTimeout"}) = {}
         /\ IF calls[u].ok
            THEN /\ Made({"issues.createComment"}) = {u + 1} /\ Len(calls) = u + 1
                 /\ result = IF calls[u + 1].ok THEN Unstable
                             ELSE [kind |-> "error", value |-> "platform"]
            ELSE /\ Made({"issues.createComment"}) = {} /\ Len(calls) = u
                 /\ result.kind = "error"

\* C9: when the validator has returned unstable, update makes one label update
\* with the pull request's labels less the action labels, then one comment,
\* then ends in a benign skip; no executor runs; a failed label update ends
\* update in an error with no comment posted.
C9_DropThenCommentThenSkip ==
  [][/\ (pc = "validated" /\ ~isReviewedCorrectly) => pc' = "dropAutoMergeLabel"
     /\ pc = "dropAutoMergeLabel" => pc' \in {"createComment", "updateDone"}
     /\ pc = "createComment" => pc' = "updateDone"
     /\ C9_DropState']_vars

C9_Witness ==
  /\ pc = "updateDone" /\ result = Unstable
  /\ Len(pullRequest.labels) = 3 /\ Len(ExpectedLabels(pullRequest)) = 2
  /\ Len(calls) >= 2
  /\ calls[Len(calls) - 1] = Entry("issues.update", ExpectedLabels(pullRequest), 0, 0, TRUE)
  /\ calls[Len(calls)].op = "issues.createComment"

SkipCase == HasLabel(pullRequest, SkipValidation) /\ ActionLabelCount(pullRequest) = 1

C10_NoValidation ==
  SkipCase =>
    /\ Made(ReadOps \cup {"issues.update", "issues.createComment"}) = {}
    /\ pc \notin {"isPrReviewed", "listEvents", "reviewLoop", "getCommentsForReview",
                  "validated", "dropAutoMergeLabel", "createComment"}

\* C10: with the skip-validation marker and exactly one action label, update
\* fetches no reviews, events or review comments, drops no label and posts no
\* comment; once past the merged and the repository check it goes straight to
\* the executor of its action label.
C10_SkipBypassesValidator ==
  [][/\ C10_NoValidation'
     /\ (pc = "update" /\ SkipCase /\ ~pullRequest.merged
           /\ pullRequest.headRepo = pullRequest.baseRepo) => pc' = "execute"
     /\ (pc = "execute" /\ SkipCase) =>
          pc' = IF HasLabel(pullRequest, Automerge) THEN "merge" ELSE "rebase"]_vars

C10_Witness ==
  /\ pc = "updateDone" /\ SkipCase /\ HasLabel(pullRequest, Autorebase)
  /\ result = [kind |-> "return", value |-> "sha-rebased"]
  /\ calls[1].op = "git.clone" /\ Made({"git.push"}) # {}


(* ---- C11 ---- *)
NullArguments == octokit = Null \/ dir = Null \/ url = Null

\* C11: whenever the platform client, the working directory or the clone URL
\* is null, update never enters the merge or the rebase executor and makes no
\* executor call, and if it got past label resolution and validation (or the
\* skip-validation marker) it ends in the fatal "invalid arguments!" error
C11_NullArgumentsAreFatal ==
  NullArguments =>
    /\ pc \notin ExecutorPcs
    /\ Made({"pulls.get", "repos.merge", "setTimeout"} \cup GitOps) = {}
    /\ (pc = "updateDone" /\ action # Null /\ result.kind # "neutral"
          => result = [kind |-> "error", value |-> "invalid arguments!"])

\* the same statement for the stable path only, which the code does guard
C11_StablePathOnly ==
  NullArguments /\ ~skipAdvancedApprovalValidation =>
    /\ pc \notin ExecutorPcs \cup {"execute"}
    /\ Made({"pulls.get", "repos.merge", "setTimeout"} \cup GitOps) = {}
    /\ (pc = "updateDone" /\ isReviewedCorrectly
          => result = [kind |-> "error", value |-> "invalid arguments!"])

(* ---- C12 ---- *)
\* the platform merges of this call of update that were answered with a status
MergesAnswered(status) ==
  {k \in Made({"repos.merge"}) : calls[k].ok /\ calls[k].n = status}

\* C12: when the platform merge of a behind pull request is answered with
\* status 204, update has returned the recorded head SHA and no settle delay
\* was waited
C12_NoOpMergeReturnsHead ==
  MergesAnswered(204) # {} =>
    /\ state = "behind"
    /\ pc = "updateDone"
    /\ result = [kind |-> "return", value |-> HeadSha]
    /\ Made({"setTimeout"}) = {}

C12_Witness ==
  /\ MergesAnswered(204) # {}
  /\ pc = "updateDone"
  /\ result.value = HeadSha

(* ---- C13 ---- *)
\* C13: a platform merge is requested only for a behind pull request; clean
\* and has_hooks return the recorded head SHA, every other state ends in a
\* benign skip, and neither makes a mutating call, a git call or a delay
C13_MergeOnlyWhenBehind ==
  /\ Made({"repos.merge"}) # {} => state = "behind"
  /\ state \in {"clean", "has_hooks"} =>
       /\ pc = "updateDone"
       /\ result = [kind |-> "return", value |-> HeadSha]
       /\ Made(MutatingOps \cup GitOps \cup {"setTimeout"}) = {}
  /\ state \in MergeableStates \ {"behind", "clean", "has_hooks"} =>
       /\ pc = "updateDone"
       /\ result.kind = "neutral"
       /\ Made(MutatingOps \cup GitOps \cup {"setTimeout"}) = {}

C13_Witness ==
  /\ state = "dirty"
  /\ pc = "updateDone"
  /\ result.kind = "neutral"
  /\ calls[Len(calls)].op = "pulls.get"

(* ---- C14 ---- *)
\* C14: when the platform merge of a behind pull request created a merge commit
\* (status 201) with SHA s, update is either still before the settle delay,
\* with nothing returned yet, or has returned exactly s with the settle delay
\* as the one call made after the platform merge
C14_RealMergeReturnsNewShaAfterDelay ==
  \A k \in MergesAnswered(201) :
    /\ state = "behind"
    /\ newHead \in MergeShas
    /\ IF pc = "settle.merge"
       THEN result = Pending /\ k = Len(calls)
       ELSE /\ pc = "updateDone"
            /\ result = [kind |-> "return", value |-> newHead]
            /\ Len(calls) = k + 1
            /\ calls[k + 1].op = "setTimeout" /\ calls[k + 1].ok

C14_Witness ==
  /\ MergesAnswered(201) # {}
  /\ pullRequest.labels = <<Automerge>>
  /\ isReviewedCorrectly
  /\ Made({"pulls.listReviews"}) # {}
  /\ pc = "updateDone"
  /\ result = [kind |-> "return", value |-> "sha-merged-2"]
  /\ calls[Len(calls)].op = "setTimeout"


(* ---- C15 ---- *)
\* C15: in the rebase executor, when the HEAD read after clone and fetch is
\* not the recorded head SHA, update has ended in a benign skip and no
\* rebase, no push and no settle delay was made
C15_StaleHeadIsSkip ==
  action = Autorebase /\ head \notin {Null, HeadSha} =>
    /\ pc = "updateDone"
    /\ result.kind = "neutral"
    /\ Made({"git.sha", "git.rebase", "git.push", "setTimeout"}) = {}

C15_Witness ==
  /\ action = Autorebase
  /\ head = "sha-pushed"
  /\ pc = "updateDone"
  /\ Made({"git.clone"}) # {}
  /\ calls[Len(calls)].op = "git.head"

(* ---- C16 ---- *)
OkPushes == {k \in Made({"git.push"}) : calls[k].ok}

\* C16: the rebase executor pushes only when the HEAD read after the rebase
\* differs from the one read before it. Equal: update has returned that HEAD
\* with no push and no settle delay. Different: at most one push is made, after
\* the rebase; once it succeeded the settle delay is the one call that follows
\* and update returns the new HEAD
C16_PushIffHeadMoved ==
  /\ Made({"git.push"}) # {} => action = Autorebase /\ newHead \notin {Null, head}
  /\ action = Autorebase /\ newHead # Null =>
       IF newHead = head
       THEN /\ pc = "updateDone"
            /\ result = [kind |-> "return", value |-> head]
            /\ Made({"git.push", "setTimeout"}) = {}
       ELSE /\ Cardinality(Made({"git.push"})) <= 1
            /\ \A k \in Made({"git.push"}) : \E j \in Made({"git.rebase"}) : j < k /\ calls[j].ok
            /\ pc = "git.push" => Made({"git.push", "setTimeout"}) = {} /\ result = Pending
            /\ pc = "settle.rebase" =>
                 OkPushes = {Len(calls)} /\ result = Pending
            /\ pc = "updateDone" =>
                 \/ /\ OkPushes = {}
                    /\ Made({"git.push"}) = {Len(calls)}
                    /\ result.kind = "error"
                 \/ /\ OkPushes = {Len(calls) - 1}
                    /\ calls[Len(calls)].op = "setTimeout"
                    /\ result = [kind |-> "return", value |-> newHead]

C16_Witness ==
  /\ action = Autorebase
  /\ head = HeadSha /\ newHead = "sha-rebased"
  /\ pc = "updateDone"
  /\ OkPushes # {}
  /\ result = [kind |-> "return", value |-> "sha-rebased"]

(* ---- C17 ---- *)
HasBlocking(pr) == \E k \in 1..Len(pr.labels) : pr.labels[k] \in Blocking

\* C17: while the batch holds an open pull request with a blocking label, it
\* is before or after the orchestrator's checks only, no action label was
\* resolved, no directory provisioned and no call made, and after the checks
\* the turn has ended in a benign skip
C17_BlockingLabelSkipsFirst ==
  pullRequest.state = "open" /\ HasBlocking(pullRequest) =>
    /\ pc \in {"updateAndMergePullRequest", "catch"}
    /\ action = Null /\ ~skipAdvancedApprovalValidation
    /\ dir = Null /\ url = Null
    /\ calls = <<>>
    /\ pc = "catch" => result.kind = "neutral"

C17_Witness ==
  /\ pullRequest.state = "open"
  /\ HasBlocking(pullRequest)
  /\ ActionLabelCount(pullRequest) = 2
  /\ pc = "catch"
  /\ result.kind = "neutral"

(* ---- C18 ---- *)
InTurn == pc \notin {"list", "loop", "finished", "crashed"}

\* the branch mutations of the current turn that took effect
Mutations == MergesAnswered(201) \cup OkPushes

\* C18: the pull requests are started in list order, each one only after the
\* outcome of the one before it is recorded; between two turns nothing of a
\* pull request is held; and when update has ended, every real merge and
\* every push of the turn has its settle delay behind it
C18_StrictOrder ==
  /\ attempts = [k \in 1..i |-> k]
  /\ Len(outcomes) = (IF InTurn THEN i - 1 ELSE i)
  /\ ~InTurn => calls = <<>> /\ result = Pending /\ pullRequest = NoPullRequest
  /\ Cardinality(Mutations) <= 1
  /\ pc \in {"updateDone", "finalMerge", "catch"} =>
       \A k \in Mutations : k < Len(calls) /\ calls[k + 1].op = "setTimeout"

C18_Witness ==
  /\ i = 2 /\ Len(outcomes) = 1
  /\ pc = "catch"
  /\ OkPushes # {}
  /\ Made({"setTimeout"}) # {}

(* ---- C19 ---- *)
\* C19: in every state of the batch, if a platform merge or a push was made
\* for the current pull request then it is open, not merged, of one
\* repository, without blocking label, with every required label and exactly
\* one action label, and carries the skip-validation marker or was judged
\* stable; a merge was made only under automerge and a push only under
\* autorebase, never both
C19_MutationOnlyIfEligible ==
  Made({"repos.merge", "git.push"}) # {} =>
    /\ pullRequest.state = "open"
    /\ pullRequest.merged = FALSE
    /\ pullRequest.headRepo = pullRequest.baseRepo
    /\ ~HasBlocking(pullRequest)
    /\ \A required \in Required : HasLabel(pullRequest, required)
    /\ ActionLabelCount(pullRequest) = 1
    /\ HasLabel(pullRequest, SkipValidation) \/ isReviewedCorrectly
    /\ Made({"repos.merge"}) # {} =>
         HasLabel(pullRequest, Automerge) /\ Made(GitOps) = {}
    /\ Made({"git.push"}) # {} =>
         HasLabel(pullRequest, Autorebase) /\ Made({"pulls.get", "repos.merge"}) = {}

C19_Witness ==
  /\ MergesAnswered(201) # {}
  /\ isReviewedCorrectly
  /\ ~HasLabel(pullRequest, SkipValidation)
  /\ pc = "finalMerge"

(* ---- C20 ---- *)
\* a label update of an earlier pass took effect on the platform
DroppedBefore ==
  platform.updates > Cardinality({k \in Made({"issues.update"}) : calls[k].ok})

\* C20: once a pass has dropped the action labels and the update took effect,
\* every later pass sees no action label, makes no call at all and ends in a
\* benign skip; over all passes the labels are updated at most once and the
\* comment is posted at most once
C20_ReentryIsIdempotent ==
  /\ platform.updates <= 1
  /\ platform.comments <= 1
  /\ DroppedBefore =>
       /\ pass >= 1
       /\ ActionLabelCount(pullRequest) = 0
       /\ calls = <<>>
       /\ pc \in {"update", "updateDone"}
       /\ pc = "updateDone" => result.kind = "neutral"

C20_Witness ==
  /\ DroppedBefore
  /\ pass = MaxPasses
  /\ platform.comments = 1
  /\ pc = "updateDone"
  /\ result.kind = "neutral"

====
